---- MODULE Spec2Model ----
(***************************************************************************)
(* Model of src/src/contracts.rs: the ContractWrapper adapter that stores  *)
(* up to six typed callbacks, decodes byte envelopes, dispatches to the    *)
(* stored callback and normalises the outcome; plus the bridging helpers   *)
(* (decustomize_deps*, customize_response, customize_msg).                 *)
(***************************************************************************)
EXTENDS Integers, Sequences, FiniteSets, TLC

\* --------------------------------------------------------------- bounds
\* longest sub-message list a callback's Response carries
MaxMsgs == 2
\* largest value a storage cell holds
MaxVal == 1

\* --------------------------------------------------- results and options
Ok(v) == [tag |-> "Ok", value |-> v]
Err(e) == [tag |-> "Err", err |-> e]
Panic(m) == [tag |-> "Panic", message |-> m]

None == [some |-> FALSE]
Some(raw, bridged) == [some |-> TRUE, raw |-> raw, bridged |-> bridged]

\* a boxed closure: Box::new(raw_fn) stores the callback itself, the
\* customize_* helpers store it behind the bridging closure
Boxed(raw) == [raw |-> raw, bridged |-> FALSE]
Bridged(raw) == [raw |-> raw, bridged |-> TRUE]

\* ------------------------------------------------------ callbacks on hand
\* Function pointers the caller can register: "execute", "instantiate" and
\* "query" for the mandatory slots and two for each optional slot, with the
\* message type of their signature (the T of ContractFn<T,..>,
\* PermissionedFn<T,..>, QueryFn<T,..>).
SudoFns == {"sudo_a", "sudo_b"}
ReplyFns == {"reply_a", "reply_b"}
MigrateFns == {"migrate_a", "migrate_b"}

FnMsgType(f) ==
    CASE f = "execute" -> "ExecuteMsg"
      [] f = "instantiate" -> "Empty"
      [] f = "query" -> "QueryMsg"
      [] f = "sudo_a" -> "SudoMsg"
      [] f = "sudo_b" -> "Empty"
      [] f = "migrate_a" -> "Empty"
      [] f = "migrate_b" -> "MigrateMsg"
      [] OTHER -> "Reply"

Slots == {"sudo_fn", "reply_fn", "migrate_fn"}

\* ---------------------------------------------------------- construction
new(execute_fn, instantiate_fn, query_fn) ==
    [execute_fn |-> Boxed(execute_fn),
     instantiate_fn |-> Boxed(instantiate_fn),
     query_fn |-> Boxed(query_fn),
     sudo_fn |-> None,
     reply_fn |-> None,
     migrate_fn |-> None]

new_with_empty(execute_fn, instantiate_fn, query_fn) ==
    [execute_fn |-> Bridged(execute_fn),
     instantiate_fn |-> Bridged(instantiate_fn),
     query_fn |-> Bridged(query_fn),
     sudo_fn |-> None,
     reply_fn |-> None,
     migrate_fn |-> None]

with_sudo(self, sudo_fn) ==
    [execute_fn |-> self.execute_fn,
     instantiate_fn |-> self.instantiate_fn,
     query_fn |-> self.query_fn,
     sudo_fn |-> Some(sudo_fn, FALSE),
     reply_fn |-> self.reply_fn,
     migrate_fn |-> self.migrate_fn]

\* mutant of with_sudo_empty: fills the slot only when it is empty
with_sudo_empty_keep(self, sudo_fn) ==
    [execute_fn |-> self.execute_fn,
     instantiate_fn |-> self.instantiate_fn,
     query_fn |-> self.query_fn,
     sudo_fn |-> IF self.sudo_fn.some THEN self.sudo_fn ELSE Some(sudo_fn, TRUE),
     reply_fn |-> self.reply_fn,
     migrate_fn |-> self.migrate_fn]

with_sudo_empty(self, sudo_fn) ==
    [execute_fn |-> self.execute_fn,
     instantiate_fn |-> self.instantiate_fn,
     query_fn |-> self.query_fn,
     sudo_fn |-> Some(sudo_fn, TRUE),
     reply_fn |-> self.reply_fn,
     migrate_fn |-> self.migrate_fn]

\* mutant of with_reply: the sudo slot is not carried over
with_reply_drops_sudo(self, reply_fn) ==
    [execute_fn |-> self.execute_fn,
     instantiate_fn |-> self.instantiate_fn,
     query_fn |-> self.query_fn,
     sudo_fn |-> None,
     reply_fn |-> Some(reply_fn, FALSE),
     migrate_fn |-> self.migrate_fn]

with_reply(self, reply_fn) ==
    [execute_fn |-> self.execute_fn,
     instantiate_fn |-> self.instantiate_fn,
     query_fn |-> self.query_fn,
     sudo_fn |-> self.sudo_fn,
     reply_fn |-> Some(reply_fn, FALSE),
     migrate_fn |-> self.migrate_fn]

with_reply_empty(self, reply_fn) ==
    [execute_fn |-> self.execute_fn,
     instantiate_fn |-> self.instantiate_fn,
     query_fn |-> self.query_fn,
     sudo_fn |-> self.sudo_fn,
     reply_fn |-> Some(reply_fn, TRUE),
     migrate_fn |-> self.migrate_fn]

with_migrate(self, migrate_fn) ==
    [execute_fn |-> self.execute_fn,
     instantiate_fn |-> self.instantiate_fn,
     query_fn |-> self.query_fn,
     sudo_fn |-> self.sudo_fn,
     reply_fn |-> self.reply_fn,
     migrate_fn |-> Some(migrate_fn, FALSE)]

with_migrate_empty(self, migrate_fn) ==
    [execute_fn |-> self.execute_fn,
     instantiate_fn |-> self.instantiate_fn,
     query_fn |-> self.query_fn,
     sudo_fn |-> self.sudo_fn,
     reply_fn |-> self.reply_fn,
     migrate_fn |-> Some(migrate_fn, TRUE)]

\* The static message type of an optional slot: the type parameter defaults
\* to Empty (T4 = Empty, T6 = Empty) until a builder re-types the slot.
SlotMsgType(slot) ==
    IF slot.some THEN FnMsgType(slot.raw) ELSE "Empty"

\* ------------------------------------------------------- byte envelopes
\* Message types the callbacks on hand are written against: the field-less
\* struct Empty and four enums, each with the single variant ping.
EnumTypes == {"ExecuteMsg", "QueryMsg", "SudoMsg", "MigrateMsg"}

\* Byte envelopes a caller supplies: two JSON objects and one non-JSON text.
Envelopes == {"{}", "{\"ping\":{}}", "ping!"}

IsJsonObject(bytes) == bytes \in {"{}", "{\"ping\":{}}"}

\* The decode diagnostic: StdError::ParseErr names the target type and carries
\* the decoder's message, which is determined by the bytes and the target.
ParseErr(target_type, bytes) ==
    [kind |-> "ParseErr", target_type |-> target_type, msg |-> <<"cannot parse", bytes>>]

\* from_json::<T>(bytes): a struct without fields accepts any JSON object
\* (unknown keys are skipped), the enum accepts exactly its variant's object;
\* several envelopes decode to one value, so decoding is not injective.
from_json(bytes, T) ==
    IF T = "Empty"
    THEN IF IsJsonObject(bytes)
         THEN Ok([type |-> "Empty", variant |-> "Empty"])
         ELSE Err(ParseErr(T, bytes))
    ELSE IF bytes = "{\"ping\":{}}"
         THEN Ok([type |-> T, variant |-> "ping"])
         ELSE Err(ParseErr(T, bytes))

\* anyhow!(err): the callback's error value wrapped into the uniform error,
\* keeping its Display text.
anyhow(err) == [kind |-> "Callback", display |-> err.display]

\* bail!("<op> is not implemented for contract")
bail(text) == Err([kind |-> "Message", display |-> text])

\* mutant of map_err: the callback's error text is lost
map_err_opaque(res) ==
    IF res.tag = "Err" THEN Err([kind |-> "Callback", display |-> "contract error"]) ELSE res

\* .map_err(|err| anyhow!(err)) on a callback outcome (a panic unwinds through)
map_err(res) ==
    IF res.tag = "Err" THEN Err(anyhow(res.err)) ELSE res

\* ------------------------------------------------------ execution context
Handles == {"storage"}
Envs == {"block_1", "block_2"}
\* the callers on hand: the block they call in and their MessageInfo
Callers == {[env |-> "block_1", info |-> "alice"], [env |-> "block_2", info |-> "bob"]}

\* DepsMut<Q> / Deps<Q> as the caller supplies them: a storage and an API
\* handle and a querier wrapper typed with the custom query Q.
DepsMut(h) ==
    [storage |-> h, api |-> "api", access |-> "mut",
     querier |-> [inner |-> "querier", custom |-> "Q"]]
Deps(h) ==
    [storage |-> h, api |-> "api", access |-> "shared",
     querier |-> [inner |-> "querier", custom |-> "Q"]]

decustomize_deps_mut(deps) ==
    [storage |-> deps.storage, api |-> deps.api, access |-> "mut",
     querier |-> [inner |-> deps.querier.inner, custom |-> "Empty"]]

\* mutant of decustomize_deps: hands out the exclusive context
decustomize_deps_exclusive(deps) ==
    [storage |-> deps.storage, api |-> deps.api, access |-> "mut",
     querier |-> [inner |-> deps.querier.inner, custom |-> "Empty"]]

decustomize_deps(deps) ==
    [storage |-> deps.storage, api |-> deps.api, access |-> "shared",
     querier |-> [inner |-> deps.querier.inner, custom |-> "Empty"]]

\* ------------------------------------------------------------- responses
Ret(v) == [tag |-> "Ret", value |-> v]

\* The text of the panic! of the last arm interpolates the Debug rendering
\* of the whole sub-message: the message of that Panic is the pair of the
\* fixed text and the sub-message.
customize_msg(msg) ==
    LET v == msg.msg.variant
        keep == [msg |-> [variant |-> v, payload |-> msg.msg.payload],
                 id |-> msg.id, gas_limit |-> msg.gas_limit, reply_on |-> msg.reply_on]
    IN CASE v = "Wasm" -> Ret(keep)
         [] v = "Bank" -> Ret(keep)
         [] v = "Staking" -> Ret(keep)
         [] v = "Distribution" -> Ret(keep)
         [] v = "Custom" -> Panic("internal error: entered unreachable code")
         [] v = "Ibc" -> Ret(keep)
         [] v = "Stargate" -> Ret(keep)
         [] OTHER -> Panic(<<"unknown message variant", msg>>)

\* mutant of customize_response: the data payload is not copied
customize_response_nodata(resp) ==
    LET lifted == [i \in 1..Len(resp.messages) |-> customize_msg(resp.messages[i])]
        bad == {i \in 1..Len(resp.messages) : lifted[i].tag = "Panic"}
        first == CHOOSE i \in bad : \A j \in bad : i <= j
    IN IF bad # {}
       THEN lifted[first]
       ELSE Ret([messages |-> <<>> \o [i \in 1..Len(resp.messages) |-> lifted[i].value],
                 events |-> <<>> \o resp.events,
                 attributes |-> <<>> \o resp.attributes,
                 data |-> [some |-> FALSE]])

\* Response::<C>::new().add_submessages(..map(customize_msg)).add_events(..)
\* .add_attributes(..), then data: the first sub-message that cannot be
\* lifted aborts the whole call.
customize_response(resp) ==
    LET lifted == [i \in 1..Len(resp.messages) |-> customize_msg(resp.messages[i])]
        bad == {i \in 1..Len(resp.messages) : lifted[i].tag = "Panic"}
        first == CHOOSE i \in bad : \A j \in bad : i <= j
    IN IF bad # {}
       THEN lifted[first]
       ELSE Ret([messages |-> <<>> \o [i \in 1..Len(resp.messages) |-> lifted[i].value],
                 events |-> <<>> \o resp.events,
                 attributes |-> <<>> \o resp.attributes,
                 data |-> resp.data])

\* result.map(customize_response::<C>)
map_customize(res) ==
    IF res.tag = "Ok"
    THEN LET c == customize_response(res.value)
         IN IF c.tag = "Panic" THEN c ELSE Ok(c.value)
    ELSE res

\* ----------------------------------------------------- calling a callback
\* A function pointer is code of the contract under test: what it returns
\* (beh.out) and whether it writes to storage (beh.write: it stores the next
\* cell value) is the environment's choice.  It can write only through an
\* exclusive context.
raw_fn(f, deps, env, info, msg, beh, st) ==
    [raw_calls |-> <<[fn |-> f, deps |-> deps, env |-> env, info |-> info,
                      msg |-> msg, returned |-> beh.out]>>,
     result |-> beh.out,
     store |-> IF deps.access = "mut" /\ beh.write
               THEN [st EXCEPT ![deps.storage] = (st[deps.storage] + 1) % (MaxVal + 1)]
               ELSE st]

customize_contract_fn(f, deps, env, info, msg, beh, st) ==
    LET d == decustomize_deps_mut(deps)
        r == raw_fn(f, d, env, info, msg, beh, st)
    IN [r EXCEPT !.result = map_customize(r.result)]

customize_query_fn(f, deps, env, msg, beh, st) ==
    LET d == decustomize_deps(deps)
    IN raw_fn(f, d, env, "-", msg, beh, st)

customize_permissioned_fn(f, deps, env, msg, beh, st) ==
    LET d == decustomize_deps_mut(deps)
        r == raw_fn(f, d, env, "-", msg, beh, st)
    IN [r EXCEPT !.result = map_customize(r.result)]

\* One invocation of the closure stored in a slot, as the dispatch sees it:
\* which slot, with what arguments, and what the closure gave back.
Invoked(slot, c, deps, env, info, msg, r) ==
    [calls |-> <<[slot |-> slot, closure |-> [raw |-> c.raw, bridged |-> c.bridged],
                  deps |-> deps, env |-> env, info |-> info, msg |-> msg,
                  returned |-> r.result]>>,
     raw_calls |-> r.raw_calls,
     result |-> r.result,
     store |-> r.store]

\* applying a stored closure: the boxed callback itself or its bridging closure
ContractClosure(slot, c, deps, env, info, msg, beh, st) ==
    Invoked(slot, c, deps, env, info, msg,
            IF c.bridged
            THEN customize_contract_fn(c.raw, deps, env, info, msg, beh, st)
            ELSE raw_fn(c.raw, deps, env, info, msg, beh, st))

QueryClosure(slot, c, deps, env, msg, beh, st) ==
    Invoked(slot, c, deps, env, "-", msg,
            IF c.bridged
            THEN customize_query_fn(c.raw, deps, env, msg, beh, st)
            ELSE raw_fn(c.raw, deps, env, "-", msg, beh, st))

PermissionedClosure(slot, c, deps, env, msg, beh, st) ==
    Invoked(slot, c, deps, env, "-", msg,
            IF c.bridged
            THEN customize_permissioned_fn(c.raw, deps, env, msg, beh, st)
            ELSE raw_fn(c.raw, deps, env, "-", msg, beh, st))

NoCalls(res, st) == [calls |-> <<>>, raw_calls |-> <<>>, result |-> res, store |-> st]

\* ---------------------------------------------------- the six entry points
\* mutant of execute: the callback runs before the decode result is looked at
execute_eager(self, deps, env, info, msg, beh, st) ==
    LET m == from_json(msg, FnMsgType(self.execute_fn.raw))
        r == ContractClosure("execute_fn", self.execute_fn, deps, env, info,
                             IF m.tag = "Ok" THEN m.value ELSE [type |-> "raw", variant |-> msg],
                             beh, st)
    IN IF m.tag = "Err" THEN [r EXCEPT !.result = m]
       ELSE [r EXCEPT !.result = map_err(r.result)]

execute(self, deps, env, info, msg, beh, st) ==
    LET m == from_json(msg, FnMsgType(self.execute_fn.raw))
        r == ContractClosure("execute_fn", self.execute_fn, deps, env, info, m.value, beh, st)
    IN IF m.tag = "Err" THEN NoCalls(m, st)
       ELSE [r EXCEPT !.result = map_err(r.result)]

instantiate(self, deps, env, info, msg, beh, st) ==
    LET m == from_json(msg, FnMsgType(self.instantiate_fn.raw))
        r == ContractClosure("instantiate_fn", self.instantiate_fn, deps, env, info, m.value, beh, st)
    IN IF m.tag = "Err" THEN NoCalls(m, st)
       ELSE [r EXCEPT !.result = map_err(r.result)]

query(self, deps, env, msg, beh, st) ==
    LET m == from_json(msg, FnMsgType(self.query_fn.raw))
        r == QueryClosure("query_fn", self.query_fn, deps, env, m.value, beh, st)
    IN IF m.tag = "Err" THEN NoCalls(m, st)
       ELSE [r EXCEPT !.result = map_err(r.result)]

\* mutant of sudo: the slot is looked at before the message is decoded
sudo_slot_first(self, deps, env, msg, beh, st) ==
    LET m == from_json(msg, SlotMsgType(self.sudo_fn))
        r == PermissionedClosure("sudo_fn", self.sudo_fn, deps, env, m.value, beh, st)
    IN IF ~self.sudo_fn.some
       THEN NoCalls(bail("sudo is not implemented for contract"), st)
       ELSE IF m.tag = "Err" THEN NoCalls(m, st)
            ELSE [r EXCEPT !.result = map_err(r.result)]

\* mutant of sudo: the decode error is given the operation's name as context
sudo_with_context(self, deps, env, msg, beh, st) ==
    LET m == from_json(msg, SlotMsgType(self.sudo_fn))
        r == PermissionedClosure("sudo_fn", self.sudo_fn, deps, env, m.value, beh, st)
    IN IF m.tag = "Err"
       THEN NoCalls(Err([kind |-> "ParseErr", target_type |-> m.err.target_type,
                         msg |-> m.err.msg, context |-> "sudo"]), st)
       ELSE IF self.sudo_fn.some
            THEN [r EXCEPT !.result = map_err(r.result)]
            ELSE NoCalls(bail("sudo is not implemented for contract"), st)

sudo(self, deps, env, msg, beh, st) ==
    LET m == from_json(msg, SlotMsgType(self.sudo_fn))
        r == PermissionedClosure("sudo_fn", self.sudo_fn, deps, env, m.value, beh, st)
    IN IF m.tag = "Err" THEN NoCalls(m, st)
       ELSE IF self.sudo_fn.some
            THEN [r EXCEPT !.result = map_err(r.result)]
            ELSE NoCalls(bail("sudo is not implemented for contract"), st)

\* mutant of reply: the not-implemented text of another operation
reply_misnamed(self, deps, env, reply_data, beh, st) ==
    LET msg == reply_data
        r == PermissionedClosure("reply_fn", self.reply_fn, deps, env, msg, beh, st)
    IN IF self.reply_fn.some
       THEN [r EXCEPT !.result = map_err(r.result)]
       ELSE NoCalls(bail("migrate is not implemented for contract"), st)

reply(self, deps, env, reply_data, beh, st) ==
    LET msg == reply_data
        r == PermissionedClosure("reply_fn", self.reply_fn, deps, env, msg, beh, st)
    IN IF self.reply_fn.some
       THEN [r EXCEPT !.result = map_err(r.result)]
       ELSE NoCalls(bail("reply is not implemented for contract"), st)

migrate(self, deps, env, msg, beh, st) ==
    LET m == from_json(msg, SlotMsgType(self.migrate_fn))
        r == PermissionedClosure("migrate_fn", self.migrate_fn, deps, env, m.value, beh, st)
    IN IF m.tag = "Err" THEN NoCalls(m, st)
       ELSE IF self.migrate_fn.some
            THEN [r EXCEPT !.result = map_err(r.result)]
            ELSE NoCalls(bail("migrate is not implemented for contract"), st)

\* ------------------------------------------------- what callbacks return
VariantSeq == <<"Wasm", "Bank", "Staking", "Distribution", "Ibc", "Stargate", "Custom", "Gov">>
ReplyOnSeq == <<"Always", "Error", "Success", "Never">>

\* the k-th sub-message on hand: one per CosmosMsg variant, with differing
\* correlation id, gas limit and reply policy
SubMsgAt(k) ==
    [msg |-> [variant |-> VariantSeq[k],
              payload |-> IF VariantSeq[k] = "Custom" THEN <<"Empty">> ELSE <<"payload", k>>],
     id |-> k,
     gas_limit |-> IF k % 2 = 0 THEN [some |-> TRUE, value |-> 1000 * k] ELSE [some |-> FALSE],
     reply_on |-> ReplyOnSeq[(k % 4) + 1]]

\* sub-message lists: every run of at most MaxMsgs neighbours of the ring of
\* variants, in both directions
Window(start, n, forward) ==
    [k \in 1..n |-> SubMsgAt(IF forward THEN ((start - 1 + (k - 1)) % 8) + 1
                                         ELSE ((start - 1 + 8 * k - (k - 1)) % 8) + 1)]
MsgLists == {Window(s, n, fw) : s \in 1..8, n \in 0..MaxMsgs, fw \in BOOLEAN}
Forward == {Window(s, n, TRUE) : s \in 1..8, n \in 0..MaxMsgs}

Plain == [events |-> <<>>, attributes |-> <<>>, data |-> [some |-> FALSE]]
Rich == [events |-> <<"ev_transfer", "ev_audit">>,
         attributes |-> <<<<"action", "ping">>, <<"by", "sender">>>>,
         data |-> [some |-> TRUE, value |-> "0xCAFE"]]

MkResponse(msgs, d) ==
    [messages |-> msgs, events |-> d.events, attributes |-> d.attributes, data |-> d.data]

\* every Response<Empty> a baseline callback on hand can return
Responses == {MkResponse(l, IF l \in Forward THEN Rich ELSE Plain) : l \in MsgLists}
\* two of them: one whose sub-message every chain knows, and one carrying
\* CosmosMsg::Custom(Empty {})
BasicResponses == {MkResponse(<<SubMsgAt(1)>>, Rich), MkResponse(<<SubMsgAt(7)>>, Plain)}

CallbackErrors == {[etype |-> "ContractError", display |-> "unauthorized"]}
Binaries == {[binary |-> "0x01"]}
Replies == {[id |-> 1, result |-> "ok"], [id |-> 2, result |-> "err"]}

Outcomes(values) == {Ok(v) : v \in values} \cup {Err(e) : e \in CallbackErrors}
Behaviours(values) == [out : Outcomes(values), write : BOOLEAN]
ReadOnlyBehaviours(values) == [out : Outcomes(values), write : {FALSE}]

\* ------------------------------------------------------------------ state
VARIABLES
    wrapper,   \* the ContractWrapper value
    store,     \* the caller's persistent storage, by handle
    last,      \* the latest dispatch on this wrapper value: input, callback calls, result
    ctor,      \* which constructor made the wrapper
    supplied,  \* per optional slot, the builder and callback last supplied
    order,     \* the optional slots in the order they were first populated
    replaced   \* some builder call wrote a slot that was already populated

vars == <<wrapper, store, last, ctor, supplied, order, replaced>>

NoCall == [op |-> "none"]

\* a panic unwinds out of the dispatch: nothing runs after it
Aborted == last.op # "none" /\ last.result.tag = "Panic"

Init ==
    /\ ctor \in {"new", "new_with_empty"}
    /\ wrapper = IF ctor = "new"
                 THEN new("execute", "instantiate", "query")
                 ELSE new_with_empty("execute", "instantiate", "query")
    /\ store = [h \in Handles |-> 0]
    /\ last = NoCall
    /\ supplied = [s \in Slots |-> [some |-> FALSE]]
    /\ order = <<>>
    /\ replaced = FALSE

InitBridging ==
    /\ ctor = "new_with_empty"
    /\ wrapper = new_with_empty("execute", "instantiate", "query")
    /\ store = [h \in Handles |-> 0]
    /\ last = NoCall
    /\ supplied = [s \in Slots |-> [some |-> FALSE]]
    /\ order = <<>>
    /\ replaced = FALSE

\* bookkeeping of a builder call
Built(slot, builder, f) ==
    /\ supplied' = [supplied EXCEPT ![slot] = [some |-> TRUE, builder |-> builder, fn |-> f]]
    /\ order' = IF supplied[slot].some THEN order ELSE Append(order, slot)
    /\ replaced' = (replaced \/ supplied[slot].some)
    /\ last' = NoCall
    /\ UNCHANGED <<store, ctor>>

WithSudo(f) ==
    /\ ~Aborted
    /\ wrapper' = with_sudo(wrapper, f)
    /\ Built("sudo_fn", "with_sudo", f)

WithSudoEmpty(f) ==
    /\ ~Aborted
    /\ wrapper' = with_sudo_empty(wrapper, f)
    /\ Built("sudo_fn", "with_sudo_empty", f)

WithReply(f) ==
    /\ ~Aborted
    /\ wrapper' = with_reply(wrapper, f)
    /\ Built("reply_fn", "with_reply", f)

WithReplyEmpty(f) ==
    /\ ~Aborted
    /\ wrapper' = with_reply_empty(wrapper, f)
    /\ Built("reply_fn", "with_reply_empty", f)

WithMigrate(f) ==
    /\ ~Aborted
    /\ wrapper' = with_migrate(wrapper, f)
    /\ Built("migrate_fn", "with_migrate", f)

WithMigrateEmpty(f) ==
    /\ ~Aborted
    /\ wrapper' = with_migrate_empty(wrapper, f)
    /\ Built("migrate_fn", "with_migrate_empty", f)

\* bookkeeping of a dispatch
Dispatched(op, deps, env, info, input, r) ==
    /\ last' = [op |-> op, deps |-> deps, env |-> env, info |-> info, input |-> input,
                calls |-> r.calls, raw_calls |-> r.raw_calls, result |-> r.result]
    /\ store' = r.store
    /\ UNCHANGED <<wrapper, ctor, supplied, order, replaced>>

Execute(h, env, info, msg, beh) ==
    /\ ~Aborted
    /\ Dispatched("execute", DepsMut(h), env, info, [bytes |-> msg],
                  execute(wrapper, DepsMut(h), env, info, msg, beh, store))

Instantiate(h, env, info, msg, beh) ==
    /\ ~Aborted
    /\ Dispatched("instantiate", DepsMut(h), env, info, [bytes |-> msg],
                  instantiate(wrapper, DepsMut(h), env, info, msg, beh, store))

Query(h, env, msg, beh) ==
    /\ ~Aborted
    /\ Dispatched("query", Deps(h), env, "-", [bytes |-> msg],
                  query(wrapper, Deps(h), env, msg, beh, store))

Sudo(h, env, msg, beh) ==
    /\ ~Aborted
    /\ Dispatched("sudo", DepsMut(h), env, "-", [bytes |-> msg],
                  sudo(wrapper, DepsMut(h), env, msg, beh, store))

Reply(h, env, reply_data, beh) ==
    /\ ~Aborted
    /\ Dispatched("reply", DepsMut(h), env, "-", [reply |-> reply_data],
                  reply(wrapper, DepsMut(h), env, reply_data, beh, store))

Migrate(h, env, msg, beh) ==
    /\ ~Aborted
    /\ Dispatched("migrate", DepsMut(h), env, "-", [bytes |-> msg],
                  migrate(wrapper, DepsMut(h), env, msg, beh, store))

\* Dispatching on wrappers built with one callback per builder.
Next ==
    \/ \E f \in {"sudo_a"} : WithSudo(f)
    \/ \E f \in {"sudo_b"} : WithSudoEmpty(f)
    \/ \E f \in {"reply_a"} : WithReply(f)
    \/ \E f \in {"reply_b"} : WithReplyEmpty(f)
    \/ \E f \in {"migrate_a"} : WithMigrate(f)
    \/ \E f \in {"migrate_b"} : WithMigrateEmpty(f)
    \/ \E h \in Handles, c \in Callers, msg \in Envelopes,
          beh \in Behaviours(BasicResponses) : Execute(h, c.env, c.info, msg, beh)
    \/ \E h \in Handles, c \in Callers, msg \in Envelopes,
          beh \in Behaviours(BasicResponses) : Instantiate(h, c.env, c.info, msg, beh)
    \/ \E h \in Handles, env \in Envs, msg \in Envelopes,
          beh \in Behaviours(Binaries) : Query(h, env, msg, beh)
    \/ \E h \in Handles, env \in Envs, msg \in Envelopes,
          beh \in Behaviours(BasicResponses) : Sudo(h, env, msg, beh)
    \/ \E h \in Handles, env \in Envs, r \in Replies,
          beh \in Behaviours(BasicResponses) : Reply(h, env, r, beh)
    \/ \E h \in Handles, env \in Envs, msg \in Envelopes,
          beh \in Behaviours(BasicResponses) : Migrate(h, env, msg, beh)

Spec == Init /\ [][Next]_vars

\* Building with every builder and callback on hand, in every order, and
\* probing each entry point.
Probe == [out : {Ok(MkResponse(<<>>, Plain))}, write : {FALSE}]
ProbeQuery == [out : {Ok([binary |-> "0x01"])}, write : {FALSE}]

NextBuild ==
    \/ \E f \in SudoFns : WithSudo(f)
    \/ \E f \in SudoFns : WithSudoEmpty(f)
    \/ \E f \in ReplyFns : WithReply(f)
    \/ \E f \in ReplyFns : WithReplyEmpty(f)
    \/ \E f \in MigrateFns : WithMigrate(f)
    \/ \E f \in MigrateFns : WithMigrateEmpty(f)
    \/ \E beh \in Probe : Execute("storage", "block_1", "alice", "{\"ping\":{}}", beh)
    \/ \E beh \in Probe : Instantiate("storage", "block_1", "alice", "{\"ping\":{}}", beh)
    \/ \E beh \in ProbeQuery : Query("storage", "block_1", "{\"ping\":{}}", beh)
    \/ \E beh \in Probe : Sudo("storage", "block_1", "{\"ping\":{}}", beh)
    \/ \E beh \in Probe, r \in Replies : Reply("storage", "block_1", r, beh)
    \/ \E beh \in Probe : Migrate("storage", "block_1", "{\"ping\":{}}", beh)

SpecBuild == Init /\ [][NextBuild]_vars

\* Bridging mode: a wrapper made by new_with_empty and the *_empty builders,
\* whose baseline callbacks return any Response<Empty> on hand.
NextBridging ==
    \/ \E f \in {"sudo_b"} : WithSudoEmpty(f)
    \/ \E f \in {"reply_b"} : WithReplyEmpty(f)
    \/ \E f \in {"migrate_b"} : WithMigrateEmpty(f)
    \/ \E h \in Handles, c \in {[env |-> "block_1", info |-> "alice"]}, msg \in Envelopes,
          beh \in ReadOnlyBehaviours(Responses) : Execute(h, c.env, c.info, msg, beh)
    \/ \E h \in Handles, c \in {[env |-> "block_2", info |-> "bob"]}, msg \in Envelopes,
          beh \in ReadOnlyBehaviours(Responses) : Instantiate(h, c.env, c.info, msg, beh)
    \/ \E h \in Handles, env \in {"block_1"}, msg \in Envelopes,
          beh \in ReadOnlyBehaviours(Binaries) : Query(h, env, msg, beh)
    \/ \E h \in Handles, env \in {"block_1"}, msg \in Envelopes,
          beh \in ReadOnlyBehaviours(Responses) : Sudo(h, env, msg, beh)
    \/ \E h \in Handles, env \in {"block_2"}, r \in Replies,
          beh \in Behaviours(Responses) : Reply(h, env, r, beh)
    \/ \E h \in Handles, env \in {"block_1"}, msg \in Envelopes,
          beh \in ReadOnlyBehaviours(Responses) : Migrate(h, env, msg, beh)

SpecBridging == InitBridging /\ [][NextBridging]_vars

\* ======================================================================
\* Vocabulary of the properties, stated apart from the dispatch code
\* ======================================================================
ByteOps == {"execute", "instantiate", "query", "sudo", "migrate"}
OptionalOps == {"sudo", "reply", "migrate"}

OpSlot(op) ==
    CASE op = "execute" -> "execute_fn"
      [] op = "instantiate" -> "instantiate_fn"
      [] op = "query" -> "query_fn"
      [] op = "sudo" -> "sudo_fn"
      [] op = "reply" -> "reply_fn"
      [] op = "migrate" -> "migrate_fn"

\* the slot of op holds a callback
Populated(op) == op \notin OptionalOps \/ wrapper[OpSlot(op)].some

\* the message type op decodes into: its callback's, or Empty for an
\* optional slot no builder has typed
ExpectedType(op) ==
    IF Populated(op) THEN FnMsgType(wrapper[OpSlot(op)].raw) ELSE "Empty"

\* which envelopes are valid under which message type, and the value they denote
Decodable(bytes, T) ==
    \/ T = "Empty" /\ bytes \in {"{}", "{\"ping\":{}}"}
    \/ T \in EnumTypes /\ bytes = "{\"ping\":{}}"
DecodedValue(T) ==
    IF T = "Empty" THEN [type |-> "Empty", variant |-> "Empty"]
                   ELSE [type |-> T, variant |-> "ping"]

Dispatching == last.op # "none"
LastType == ExpectedType(last.op)
InputDecodes == last.op = "reply" \/ Decodable(last.input.bytes, ExpectedType(last.op))
DecodeFails == last.op \in ByteOps /\ ~Decodable(last.input.bytes, ExpectedType(last.op))
SentMsg == IF last.op = "reply" THEN last.input.reply ELSE DecodedValue(ExpectedType(last.op))

NotImplemented(op) ==
    CASE op = "sudo" -> [kind |-> "Message", display |-> "sudo is not implemented for contract"]
      [] op = "reply" -> [kind |-> "Message", display |-> "reply is not implemented for contract"]
      [] op = "migrate" -> [kind |-> "Message", display |-> "migrate is not implemented for contract"]

\* ----------------------------------------------------------------- C1
\* C1: a dispatch whose input decodes and whose slot holds a callback invokes
\* that slot's stored callback exactly once, with the decoded value and the
\* caller's context, env and info, and returns what it gave back: its
\* Response on success, an error with the callback error's display text on
\* failure.
C1_DispatchInvokesStoredCallbackOnce ==
    (Dispatching /\ Populated(last.op) /\ InputDecodes) =>
        /\ Len(last.calls) = 1
        /\ Len(last.raw_calls) = 1
        /\ LET c == last.calls[1]
               f == last.raw_calls[1]
           IN /\ c.slot = OpSlot(last.op)
              /\ c.closure = [raw |-> wrapper[c.slot].raw, bridged |-> wrapper[c.slot].bridged]
              /\ f.fn = wrapper[c.slot].raw
              /\ c.msg = SentMsg /\ f.msg = SentMsg
              /\ c.deps = last.deps /\ c.env = last.env /\ c.info = last.info
              /\ (c.returned.tag = "Ok" => last.result = Ok(c.returned.value))
              /\ (c.returned.tag = "Ok" => last.result.value = f.returned.value)
              /\ (c.returned.tag = "Err" =>
                    /\ c.returned = f.returned
                    /\ last.result = Err([kind |-> "Callback", display |-> f.returned.err.display]))
              /\ (~c.closure.bridged => c.returned = f.returned)

\* C1 witness: sudo on a populated slot whose callback failed
C1_Witness ==
    /\ last.op = "sudo"
    /\ wrapper.sudo_fn.some
    /\ Len(last.calls) = 1
    /\ last.result.tag = "Err"
    /\ last.result.err.kind = "Callback"

\* ----------------------------------------------------------------- C2
\* C2 as stated: on a wrapper whose sudo slot was never populated, sudo
\* fails with the not-implemented error for every byte message, well-formed
\* or not.
C2_SudoAlwaysNotImplemented ==
    (last.op = "sudo" /\ ~supplied["sudo_fn"].some) =>
        last.result = Err(NotImplemented("sudo"))

\* C2 amended: on a wrapper whose sudo slot was never populated, sudo invokes
\* no callback and fails for every byte message: with the not-implemented
\* error when the message decodes to the slot's message type (Empty), and
\* with the decode error when it does not.
C2_UnpopulatedSudoDecodesFirst ==
    (last.op = "sudo" /\ ~supplied["sudo_fn"].some) =>
        /\ last.calls = <<>>
        /\ last.raw_calls = <<>>
        /\ last.result.tag = "Err"
        /\ IF Decodable(last.input.bytes, "Empty")
           THEN last.result.err = NotImplemented("sudo")
           ELSE /\ last.result.err.kind = "ParseErr"
                /\ last.result.err.target_type = "Empty"

\* C2 witness: sudo on an unpopulated slot with bytes that are not JSON
C2_Witness ==
    /\ last.op = "sudo"
    /\ ~supplied["sudo_fn"].some
    /\ last.input.bytes = "ping!"
    /\ last.result.tag = "Err"
    /\ last.result.err.kind = "ParseErr"

\* ----------------------------------------------------------------- C3
\* C3: when the byte envelope of execute, instantiate, query, sudo or migrate
\* does not decode to the operation's message type, the call returns the
\* decode error with its diagnostic, invokes no callback, and leaves the
\* storage as it was.
C3_DecodeErrorNoCallback ==
    [][DecodeFails' =>
         /\ last'.result.tag = "Err"
         /\ last'.result.err.kind = "ParseErr"
         /\ last'.result.err.msg = <<"cannot parse", last'.input.bytes>>
         /\ last'.calls = <<>>
         /\ last'.raw_calls = <<>>
         /\ store' = store]_vars

\* C3 witness: migrate on a populated slot whose message type rejects "{}"
C3_Witness ==
    /\ last.op = "migrate"
    /\ wrapper.migrate_fn.some
    /\ last.input.bytes = "{}"
    /\ last.result.tag = "Err"
    /\ last.result.err.kind = "ParseErr"
    /\ last.calls = <<>>

\* ----------------------------------------------------------------- C7
NeverPopulatedDispatch ==
    Dispatching /\ last.op \in OptionalOps /\ ~supplied[OpSlot(last.op)].some

\* C7 as stated: every dispatch of sudo, reply or migrate on a
\* never-populated slot returns the not-implemented error naming exactly
\* that operation, which is neither a decode nor a callback error, and
\* invokes no callback.
C7_NeverPopulatedAlwaysNotImplemented ==
    NeverPopulatedDispatch =>
        /\ last.result = Err(NotImplemented(last.op))
        /\ \A other \in OptionalOps \ {last.op} : last.result.err # NotImplemented(other)
        /\ last.result.err.kind \notin {"ParseErr", "Callback"}
        /\ last.calls = <<>>
        /\ last.raw_calls = <<>>

\* C7 amended: a dispatch of sudo, reply or migrate on a never-populated
\* slot invokes no callback and fails; for reply on every envelope, and for
\* sudo and migrate on every message that decodes to the slot's message
\* type (Empty), the error is the not-implemented error naming exactly that
\* operation, which is neither a decode nor a callback error; for sudo and
\* migrate on a message that does not decode, the error is the decode
\* error, which is not a not-implemented error.
C7_NotImplementedNamesOperation ==
    NeverPopulatedDispatch =>
        /\ last.calls = <<>>
        /\ last.raw_calls = <<>>
        /\ last.result.tag = "Err"
        /\ IF last.op = "reply" \/ Decodable(last.input.bytes, "Empty")
           THEN /\ last.result = Err(NotImplemented(last.op))
                /\ \A other \in OptionalOps \ {last.op} :
                       last.result.err # NotImplemented(other)
                /\ last.result.err.kind \notin {"ParseErr", "Callback"}
           ELSE /\ last.result = Err(ParseErr("Empty", last.input.bytes))
                /\ \A op \in OptionalOps : last.result.err # NotImplemented(op)

\* C7 witness: migrate on a wrapper built only via new
C7_Witness ==
    /\ ctor = "new"
    /\ order = <<>>
    /\ last.op = "migrate"
    /\ last.result = Err([kind |-> "Message", display |-> "migrate is not implemented for contract"])

\* ----------------------------------------------------------------- C9
BothDecodeErrors ==
    /\ last.op \in ByteOps /\ last.result.tag = "Err" /\ last.result.err.kind = "ParseErr"
    /\ last'.op \in ByteOps /\ last'.result.tag = "Err" /\ last'.result.err.kind = "ParseErr"

\* C9 as stated: a decode error identifies the operation that was invoked,
\* so the same malformed bytes sent to two different operations, one after
\* the other, produce different errors.
C9_DecodeErrorIdentifiesOperation ==
    [][(BothDecodeErrors /\ last'.op # last.op /\ last'.input.bytes = last.input.bytes)
         => last'.result # last.result]_vars

\* C9 amended: a decode error carries the target message type and the
\* unaltered decode diagnostic and nothing else (no operation name), so the
\* same malformed bytes sent to two operations with the same message type
\* produce the same error.
C9_DecodeErrorNamesTypeOnly ==
    [][DecodeFails' =>
         /\ last'.result = Err([kind |-> "ParseErr",
                                target_type |-> LastType',
                                msg |-> <<"cannot parse", last'.input.bytes>>])
         /\ (DecodeFails /\ last.input.bytes = last'.input.bytes
               /\ LastType = LastType'
               => last'.result = last.result)]_vars

\* C9 witness: the bytes that are not JSON, sent to migrate on a wrapper whose
\* sudo and migrate slots both decode into Empty
C9_Witness ==
    /\ last.op = "migrate"
    /\ ~wrapper.sudo_fn.some /\ ~wrapper.migrate_fn.some
    /\ last.input.bytes = "ping!"
    /\ last.result = Err(ParseErr("Empty", "ping!"))

\* ---------------------------------------------------------------- C10
\* C10: a query leaves the storage as it was, whatever its outcome, and the
\* context the query callback receives is shared (read-only) and holds the
\* caller's storage, API and querier handles; in bridging mode it has the
\* custom-query type dropped.
C10_QueryLeavesStorage ==
    [][last'.op = "query" =>
         /\ store' = store
         /\ \A i \in 1..Len(last'.raw_calls) :
              LET d == last'.raw_calls[i].deps
              IN /\ d.access = "shared"
                 /\ d.storage = last'.deps.storage
                 /\ d.api = last'.deps.api
                 /\ d.querier.inner = last'.deps.querier.inner
                 /\ d.querier.custom = IF wrapper'.query_fn.bridged THEN "Empty" ELSE "Q"]_vars

\* C10 witness: a bridged query callback ran on storage an earlier call wrote
C10_Witness ==
    /\ ctor = "new_with_empty"
    /\ last.op = "query"
    /\ Len(last.raw_calls) = 1
    /\ last.raw_calls[1].deps.querier.custom = "Empty"
    /\ store["storage"] = 1

\* ----------------------------------------------------------------- C4
\* the closure a builder call leaves in its slot
ClosureOf(sup) ==
    [some |-> TRUE, raw |-> sup.fn,
     bridged |-> (sup.builder \in {"with_sudo_empty", "with_reply_empty", "with_migrate_empty"})]

\* the callback named after op: new's argument, or the one supplied to the
\* slot's builder
NamedCallback(op) ==
    CASE op = "execute" -> "execute"
      [] op = "instantiate" -> "instantiate"
      [] op = "query" -> "query"
      [] OTHER -> supplied[OpSlot(op)].fn

\* new(e, i, q) followed by with_sudo, with_reply and with_migrate, once each
BuiltOnceEachFromNew ==
    /\ ctor = "new"
    /\ ~replaced
    /\ Len(order) = 3
    /\ supplied["sudo_fn"].builder = "with_sudo"
    /\ supplied["reply_fn"].builder = "with_reply"
    /\ supplied["migrate_fn"].builder = "with_migrate"

\* C4: new(e, i, q) followed by with_sudo(s), with_reply(r), with_migrate(m)
\* in whichever order gives one and the same wrapper, on which every entry
\* point dispatches to the callback named after it and to no other.
C4_BuilderOrderIrrelevant ==
    BuiltOnceEachFromNew =>
        /\ wrapper = [execute_fn |-> [raw |-> "execute", bridged |-> FALSE],
                      instantiate_fn |-> [raw |-> "instantiate", bridged |-> FALSE],
                      query_fn |-> [raw |-> "query", bridged |-> FALSE],
                      sudo_fn |-> [some |-> TRUE, raw |-> supplied["sudo_fn"].fn, bridged |-> FALSE],
                      reply_fn |-> [some |-> TRUE, raw |-> supplied["reply_fn"].fn, bridged |-> FALSE],
                      migrate_fn |-> [some |-> TRUE, raw |-> supplied["migrate_fn"].fn, bridged |-> FALSE]]
        /\ (Dispatching =>
              /\ Len(last.raw_calls) = 1
              /\ last.raw_calls[1].fn = NamedCallback(last.op)
              /\ Len(last.calls) = 1
              /\ last.calls[1].slot = OpSlot(last.op))

\* C4 witness: the order migrate, reply, sudo, and a sudo dispatched on the result
C4_Witness ==
    /\ BuiltOnceEachFromNew
    /\ order = <<"migrate_fn", "reply_fn", "sudo_fn">>
    /\ last.op = "sudo"
    /\ Len(last.raw_calls) = 1
    /\ last.raw_calls[1].fn = supplied["sudo_fn"].fn

\* ----------------------------------------------------------------- C8
\* C8: a builder call sets its own slot to the supplied callback (boxed, or
\* behind the bridging closure for the *_empty builders) and leaves the other
\* five slots as they were; a populated slot never becomes empty; and a
\* dispatch on an optional slot goes to the callback supplied last.
C8_BuildersOnlyTouchOwnSlot ==
    [][/\ wrapper'.execute_fn = wrapper.execute_fn
       /\ wrapper'.instantiate_fn = wrapper.instantiate_fn
       /\ wrapper'.query_fn = wrapper.query_fn
       /\ \A s \in Slots :
            /\ (wrapper'[s] # wrapper[s] => supplied'[s] # supplied[s])
            /\ (supplied'[s].some => wrapper'[s] = ClosureOf(supplied'[s]))
            /\ (~supplied'[s].some => ~wrapper'[s].some)
            /\ (wrapper[s].some => wrapper'[s].some)
       /\ (last'.op \in OptionalOps /\ supplied'[OpSlot(last'.op)].some /\ last'.raw_calls # <<>>
             => /\ Len(last'.raw_calls) = 1
                /\ last'.raw_calls[1].fn = supplied'[OpSlot(last'.op)].fn
                /\ last'.calls[1].closure.bridged = ClosureOf(supplied'[OpSlot(last'.op)]).bridged)]_vars

\* C8 witness: the sudo slot, and only it, was populated more than once, last
\* by with_sudo_empty, and sudo reached that callback
C8_Witness ==
    /\ replaced
    /\ order = <<"sudo_fn">>
    /\ supplied["sudo_fn"].builder = "with_sudo_empty"
    /\ supplied["sudo_fn"].fn = "sudo_b"
    /\ last.op = "sudo"
    /\ Len(last.raw_calls) = 1
    /\ last.raw_calls[1].fn = "sudo_b"

\* ----------------------------------------------------------------- C5
\* C5: in bridging mode the lifting of a callback's Response never reaches
\* the unreachable or abort branch: execute, instantiate, sudo, reply and
\* migrate return normally whatever Response the baseline callback returned.
C5_LiftingNeverAborts ==
    (Dispatching /\ last.op \in {"execute", "instantiate", "sudo", "reply", "migrate"}) =>
        last.result.tag # "Panic"

\* ----------------------------------------------------------------- C6
Liftable == {"Wasm", "Bank", "Staking", "Distribution", "Ibc", "Stargate"}
AllLiftable(msgs) == \A i \in 1..Len(msgs) : msgs[i].msg.variant \in Liftable

\* C6: after with_reply_empty(f), reply calls f once, on the caller's storage
\* and API handles with the custom-query type dropped from the querier, with
\* the caller's env and reply envelope; f's error comes back unlifted; f's
\* Response comes back with the same sub-messages in the same order (variant,
\* payload, id, gas limit and reply policy) and the same events, attributes
\* and data when all its sub-messages are of the six liftable variants, and
\* reply aborts as the lifting does otherwise.
C6_ReplyEmptyIsStripCallLift ==
    (last.op = "reply" /\ supplied["reply_fn"].some
       /\ supplied["reply_fn"].builder = "with_reply_empty") =>
        /\ Len(last.raw_calls) = 1
        /\ LET f == last.raw_calls[1]
               out == f.returned
           IN /\ f.fn = supplied["reply_fn"].fn
              /\ f.msg = last.input.reply
              /\ f.env = last.env
              /\ last.deps.querier.custom = "Q"
              /\ f.deps = [storage |-> last.deps.storage, api |-> last.deps.api,
                           access |-> "mut",
                           querier |-> [inner |-> last.deps.querier.inner, custom |-> "Empty"]]
              /\ (out.tag = "Err" =>
                    last.result = Err([kind |-> "Callback", display |-> out.err.display]))
              /\ (out.tag = "Ok" /\ ~AllLiftable(out.value.messages) => last.result.tag = "Panic")
              /\ (out.tag = "Ok" /\ AllLiftable(out.value.messages) =>
                    /\ last.result.tag = "Ok"
                    /\ LET got == last.result.value
                           sent == out.value
                       IN /\ Len(got.messages) = Len(sent.messages)
                          /\ \A i \in 1..Len(sent.messages) :
                               /\ got.messages[i].msg.variant = sent.messages[i].msg.variant
                               /\ got.messages[i].msg.payload = sent.messages[i].msg.payload
                               /\ got.messages[i].id = sent.messages[i].id
                               /\ got.messages[i].gas_limit = sent.messages[i].gas_limit
                               /\ got.messages[i].reply_on = sent.messages[i].reply_on
                          /\ got.events = sent.events
                          /\ got.attributes = sent.attributes
                          /\ got.data = sent.data)

\* C6 witness: a bridged reply callback returned two sub-messages with events,
\* attributes and data, and reply returned them lifted
C6_Witness ==
    /\ last.op = "reply"
    /\ supplied["reply_fn"].some
    /\ supplied["reply_fn"].builder = "with_reply_empty"
    /\ last.result.tag = "Ok"
    /\ Len(last.result.value.messages) >= 2
    /\ last.result.value.messages[1].msg.variant = "Bank"
    /\ last.result.value.messages[2].msg.variant = "Staking"
    /\ last.result.value.data.some
    /\ last.result.value.events # <<>>
====
